---------------------------- MODULE Spec2Model ----------------------------
(***************************************************************************)
(* Model of src/education_loan_app.py: the rate resolver                   *)
(* (get_annual_rate_for_date), the monthly amortization engine             *)
(* (separate_disbursements_amortization) and the target-payment search     *)
(* (find_required_emi_for_target_months).                                  *)
(*                                                                         *)
(* Numbers.  The program computes in Python floats.  The model computes    *)
(* the same expressions, in the same order, in IEEE 754 binary64 with      *)
(* round-to-nearest-even, so that every value of the model is the value    *)
(* the program holds, to the last bit.                                     *)
(*                                                                         *)
(* Dates.  A date is [m |-> month number, d |-> day of month], all at      *)
(* midnight.  Days are drawn from 1..28, so that adding months or years    *)
(* (pd.DateOffset) never clips the day to the end of a shorter month.      *)
(***************************************************************************)
EXTENDS Integers, Sequences, FiniteSets, TLC

VARIABLES
    args,                 \* the arguments of the call being modelled
    disbursements_list,   \* engine: the mutable tranche records (line 66)
    period_dates,         \* engine: the date range iterated over (line 77)
    schedule_rows,        \* engine: the period records emitted so far (line 79)
    locals,               \* engine: the per-period lists of the last iteration
    search,               \* search: left, right, best_emi (line 212)
    result,               \* value returned by the call, once it returned
    pc                    \* position of the call: "loop", "done", ...

vars == <<args, disbursements_list, period_dates, schedule_rows, locals,
          search, result, pc>>

-----------------------------------------------------------------------------
\* a Python list built by a loop or comprehension: the same sequence, its
\* elements computed once
List(f) == f \o <<>>

-----------------------------------------------------------------------------
(* Python floats: IEEE 754 binary64, every operation rounded to nearest,   *)
(* ties to even.                                                           *)
(*                                                                         *)
(* Natural numbers wider than TLC's integers are sequences of limbs, least *)
(* significant first, each limb in 0..Base-1.                              *)

LimbBits == 14
Precision == 53       \* bits of the significand of a binary64
Base == 2^LimbBits
MantLimbs == (Precision + LimbBits - 1) \div LimbBits

Limb(x, i) == IF i >= 1 /\ i <= Len(x) THEN x[i] ELSE 0

RECURSIVE LimbLen(_)
LimbLen(v) == IF v = 0 THEN 0 ELSE 1 + LimbLen(v \div 2)

RECURSIVE TopLimb(_, _)
TopLimb(x, i) == IF i = 0 \/ x[i] # 0 THEN i ELSE TopLimb(x, i - 1)

\* the number of bits of x, 0 for x = 0
BitLenFrom(x, t) == IF t = 0 THEN 0 ELSE LimbBits * (t - 1) + LimbLen(x[t])
BitLen(x) == BitLenFrom(x, TopLimb(x, Len(x)))
IsZeroLimbs(x) == TopLimb(x, Len(x)) = 0

\* floor(x / 2^k) and x * 2^k, as n limbs
ShiftRightBy(x, q, lo, hi, n) == List([i \in 1..n |-> Limb(x, i + q) \div lo + (Limb(x, i + q + 1) % lo) * hi])
ShiftRight(x, k, n) == ShiftRightBy(x, k \div LimbBits, 2^(k % LimbBits), 2^(LimbBits - (k % LimbBits)), n)
ShiftLeftBy(x, q, lo, hi, n) == List([i \in 1..n |-> (Limb(x, i - q) % hi) * lo + Limb(x, i - q - 1) \div hi])
ShiftLeft(x, k, n) == ShiftLeftBy(x, k \div LimbBits, 2^(k % LimbBits), 2^(LimbBits - (k % LimbBits)), n)
\* bit k of x (bit 0 the least significant); whether the bits below k are 0
BitAt(x, k) == (Limb(x, k \div LimbBits + 1) \div 2^(k % LimbBits)) % 2
LowBitsZero(x, k) ==
    /\ \A i \in 1..(k \div LimbBits) : x[i] = 0
    /\ Limb(x, k \div LimbBits + 1) % 2^(k % LimbBits) = 0

\* x + y and x - y (for x >= y) as n limbs
RECURSIVE AddFrom(_, _, _, _, _)
AddFrom(x, y, i, n, carry) ==
    IF i > n THEN <<>>
    ELSE <<(Limb(x, i) + Limb(y, i) + carry) % Base>>
         \o AddFrom(x, y, i + 1, n, (Limb(x, i) + Limb(y, i) + carry) \div Base)
AddLimbs(x, y, n) == AddFrom(x, y, 1, n, 0)

RECURSIVE SubFrom(_, _, _, _, _)
SubFrom(x, y, i, n, borrow) ==
    IF i > n THEN <<>>
    ELSE IF Limb(x, i) - Limb(y, i) - borrow < 0
    THEN <<Limb(x, i) - Limb(y, i) - borrow + Base>> \o SubFrom(x, y, i + 1, n, 1)
    ELSE <<Limb(x, i) - Limb(y, i) - borrow>> \o SubFrom(x, y, i + 1, n, 0)
SubLimbs(x, y, n) == SubFrom(x, y, 1, n, 0)

\* -1, 0 or 1 as x <, =, > y
RECURSIVE CmpFrom(_, _, _)
CmpFrom(x, y, i) ==
    IF i = 0 THEN 0
    ELSE IF Limb(x, i) > Limb(y, i) THEN 1
    ELSE IF Limb(x, i) < Limb(y, i) THEN -1
    ELSE CmpFrom(x, y, i - 1)
CmpLimbs(x, y) == CmpFrom(x, y, IF Len(x) > Len(y) THEN Len(x) ELSE Len(y))

\* columns of partial sums brought back to limbs
RECURSIVE Propagate(_, _, _)
Propagate(cols, i, carry) ==
    IF i > Len(cols) THEN <<carry>>
    ELSE <<(cols[i] + carry) % Base>> \o Propagate(cols, i + 1, (cols[i] + carry) \div Base)

\* x * k for one limb k, and the product of two significands
MulSmall(x, k) == Propagate([i \in 1..Len(x) |-> x[i] * k], 1, 0)
MulLimbs(x, y) == Propagate([k \in 1..(2 * MantLimbs - 1) |-> x[1] * Limb(y, k) + x[2] * Limb(y, k - 1) + x[3] * Limb(y, k - 2) + x[4] * Limb(y, k - 3)], 1, 0)

\* long division in base Base, for a divisor d whose top limb is >= Base/2
\* and a dividend n < 2 * d: each quotient limb is estimated from below out
\* of the two top limbs of the remainder and then corrected upwards
RECURSIVE Correct(_, _, _)
Correct(q, r, d) ==
    IF CmpLimbs(r, d) >= 0 THEN Correct(q + 1, SubLimbs(r, d, Len(r)), d)
    ELSE [q |-> q, r |-> r]
DivStepFrom(r, d, est) == Correct(est, SubLimbs(r, MulSmall(d, est), Len(r)), d)
DivStep(r, d) == DivStepFrom(r, d, (r[Len(d) + 1] * Base + r[Len(d)]) \div (d[Len(d)] + 1))
RECURSIVE DivFrom(_, _, _, _)
DivFrom(quot, s, d, steps) ==
    IF steps = 0 THEN [quot |-> <<s.q>> \o quot, rem |-> s.r]
    ELSE DivFrom(<<s.q>> \o quot, DivStep(<<0>> \o SubSeq(s.r, 1, Len(d)), d), d, steps - 1)
\* floor(n * Base^MantLimbs / d) and the remainder of the division
LongDiv(n, d) == DivFrom(<<>>, Correct(0, n, d), d, MantLimbs)

(* A float is [sign |-> 1 or -1, exp |-> e, mant |-> m]: the number         *)
(* sign * m * 2^e, with m a natural number of MantLimbs limbs and exactly  *)
(* Precision bits; 0.0 is FZero.  The sign of a zero is not represented,   *)
(* and the exponent is unbounded: no value of the model comes near the     *)
(* overflow or the subnormal range of a binary64.                          *)

FZero == [sign |-> 1, exp |-> 0, mant |-> [i \in 1..MantLimbs |-> 0]]
IsZero(x) == x.mant = FZero.mant
MinNormal == [i \in 1..MantLimbs |-> IF i = MantLimbs THEN 2^(Precision - 1 - LimbBits * (MantLimbs - 1)) ELSE 0]

\* the float nearest to sign * (x + t) * 2^e, ties to even, where x is a
\* natural number of len bits and 0 < t < 1 if sticky, t = 0 if not
RoundCarry(sign, e, q1) ==
    IF BitLen(q1) > Precision THEN [sign |-> sign, exp |-> e + 1, mant |-> MinNormal]
    ELSE [sign |-> sign, exp |-> e, mant |-> q1]
RoundNearest(sign, e, q, half, rest) ==
    IF half /\ (rest \/ q[1] % 2 = 1) THEN RoundCarry(sign, e, AddLimbs(q, <<1>>, MantLimbs))
    ELSE [sign |-> sign, exp |-> e, mant |-> q]
RoundBits(sign, x, e, sticky, len) ==
    IF len = 0 THEN FZero
    ELSE IF len <= Precision
    THEN [sign |-> sign, exp |-> e + len - Precision, mant |-> ShiftLeft(x, Precision - len, MantLimbs)]
    ELSE RoundNearest(sign, e + len - Precision, ShiftRight(x, len - Precision, MantLimbs),
                      BitAt(x, len - Precision - 1) = 1,
                      sticky \/ ~LowBitsZero(x, len - Precision - 1))
Round(sign, x, e, sticky) == RoundBits(sign, x, e, sticky, BitLen(x))

\* float(i) for a Python int i
FromInt(i) ==
    IF i < 0 THEN Round(-1, <<(-i) % Base, ((-i) \div Base) % Base, (-i) \div (Base * Base)>>, 0, FALSE)
    ELSE Round(1, <<i % Base, (i \div Base) % Base, i \div (Base * Base)>>, 0, FALSE)

FNeg(x) == IF IsZero(x) THEN x ELSE [x EXCEPT !.sign = -x.sign]

\* a + b for the signed magnitudes sa * a * 2^e and sb * b * 2^e; c compares
\* a with b
AddMagnitudes(sa, a, sb, b, e, c) ==
    IF sa = sb THEN Round(sa, AddLimbs(a, b, 2 * MantLimbs), e, FALSE)
    ELSE IF c = 0 THEN FZero
    ELSE IF c > 0 THEN Round(sa, SubLimbs(a, b, 2 * MantLimbs), e, FALSE)
    ELSE Round(sb, SubLimbs(b, a, 2 * MantLimbs), e, FALSE)
AddShifted(sa, a, lo) == AddMagnitudes(sa, a, lo.sign, lo.mant, lo.exp, CmpLimbs(a, lo.mant))
\* hi + lo for hi.exp >= lo.exp, neither zero.  An operand below a quarter
\* of the last bit of the other does not change it.
AddAligned(hi, lo) ==
    IF hi.exp - lo.exp > Precision + 2 THEN hi
    ELSE AddShifted(hi.sign, ShiftLeft(hi.mant, hi.exp - lo.exp, 2 * MantLimbs), lo)
FAdd(x, y) ==
    IF IsZero(x) THEN y
    ELSE IF IsZero(y) THEN x
    ELSE AddAligned(IF x.exp >= y.exp THEN x ELSE y, IF x.exp >= y.exp THEN y ELSE x)
FSub(x, y) == FAdd(x, FNeg(y))
FMul(x, y) ==
    IF IsZero(x) \/ IsZero(y) THEN FZero
    ELSE Round(x.sign * y.sign, MulLimbs(x.mant, y.mant), x.exp + y.exp, FALSE)
\* x / y for y # 0
DivRound(sign, e, q) == Round(sign, q.quot, e, ~IsZeroLimbs(q.rem))
FDiv(x, y) ==
    IF IsZero(x) THEN FZero
    ELSE DivRound(x.sign * y.sign, x.exp - y.exp - LimbBits * MantLimbs,
                  LongDiv(ShiftLeft(x.mant, LimbBits * MantLimbs - Precision, MantLimbs),
                          ShiftLeft(y.mant, LimbBits * MantLimbs - Precision, MantLimbs)))

Sgn(x) == IF IsZero(x) THEN 0 ELSE x.sign
CmpMag(x, y) ==
    IF x.exp > y.exp THEN 1 ELSE IF x.exp < y.exp THEN -1 ELSE CmpLimbs(x.mant, y.mant)
FCmp(x, y) ==
    IF Sgn(x) # Sgn(y) THEN (IF Sgn(x) > Sgn(y) THEN 1 ELSE -1)
    ELSE IF Sgn(x) = 0 THEN 0
    ELSE Sgn(x) * CmpMag(x, y)
FLt(x, y) == FCmp(x, y) < 0
FLe(x, y) == FCmp(x, y) <= 0
FPos(x) == Sgn(x) > 0
FMin(a, b) == IF FLt(b, a) THEN b ELSE a       \* Python's min(a, b)

\* Python's sum(s): 0 + s[1] + s[2] + ..., from the left
RECURSIVE FSum(_)
FSum(s) == IF s = <<>> THEN FZero ELSE FAdd(FSum(SubSeq(s, 1, Len(s) - 1)), s[Len(s)])

\* the literal 1e-8, and x < 1e-8
TolInv == 100000000
Tolerance == FDiv(FromInt(1), FromInt(TolInv))
BelowTol(x) == FLt(x, Tolerance)

-----------------------------------------------------------------------------
(* Calendar dates and pd.DateOffset.                                       *)

MonthsPerYear == 12

Date(m, d) == [m |-> m, d |-> d]
DateLt(a, b) == a.m < b.m \/ (a.m = b.m /\ a.d < b.d)
DateLe(a, b) == a = b \/ DateLt(a, b)
AddMonths(a, k) == [m |-> a.m + k, d |-> a.d]             \* pd.DateOffset(months=k)
AddYears(a, y) == AddMonths(a, MonthsPerYear * y)         \* pd.DateOffset(years=y)

-----------------------------------------------------------------------------
(* DataFrame.sort_values on a date column: the rows in ascending order of  *)
(* the key, rows of equal key keeping their order.                         *)

RECURSIVE InsertByDate(_, _, _)
InsertByDate(sorted, row, key) ==
    IF sorted = <<>> THEN <<row>>
    ELSE IF DateLt(row[key], sorted[Len(sorted)][key])
         THEN Append(InsertByDate(SubSeq(sorted, 1, Len(sorted) - 1), row, key),
                     sorted[Len(sorted)])
         ELSE Append(sorted, row)

RECURSIVE SortByDate(_, _)
SortByDate(rows, key) ==
    IF rows = <<>> THEN <<>>
    ELSE InsertByDate(SortByDate(SubSeq(rows, 1, Len(rows) - 1), key), rows[Len(rows)], key)

-----------------------------------------------------------------------------
(* A. get_annual_rate_for_date                                             *)

\* the rows whose effective_date <= date (line 29), the mutant with < instead
ApplicableStrict(date, sorted) ==
    SelectSeq(sorted, LAMBDA r : DateLt(r.effective_date, date))
Applicable(date, sorted) ==
    SelectSeq(sorted, LAMBDA r : DateLe(r.effective_date, date))

get_annual_rate_for_date(date, df_rate_schedule, default_rate) ==
    IF df_rate_schedule = <<>> THEN default_rate
    ELSE LET sorted == SortByDate(df_rate_schedule, "effective_date")
             applicable == Applicable(date, sorted)
         IN  IF applicable = <<>> THEN default_rate
             ELSE applicable[Len(applicable)].annual_rate

-----------------------------------------------------------------------------
(* B. separate_disbursements_amortization: set-up (lines 57-79)            *)

\* lines 66-73: one tracking record per row of the sorted disbursement table
BuildDisbursements(df_disb) ==
    LET sorted == SortByDate(df_disb, "disbursement_date")
    IN  List([i \in 1..Len(sorted) |->
            [id |-> i - 1,
             disbursement_date |-> sorted[i].disbursement_date,
             principal_outstanding |-> FromInt(sorted[i].amount),
             accrued_simple_interest |-> FZero]])

\* pd.date_range(start, end, freq='MS'): the first days of month in [start, end]
FirstMonth(start) == IF start.d = 1 THEN start.m ELSE start.m + 1
DateRangeMS(start, end) ==
    LET first == FirstMonth(start)
        last  == end.m
    IN  IF last < first THEN <<>>
        ELSE List([i \in 1..(last - first + 1) |-> Date(first + i - 1, 1)])

\* lines 76-77
PeriodDates(start_payment_date, max_months) ==
    DateRangeMS(start_payment_date, AddMonths(start_payment_date, max_months))

-----------------------------------------------------------------------------
(* B. one iteration of the period loop (lines 81-186)                      *)

\* line 83: the payments dated exactly current_date, summed
LumpsumPayment(df_payments, current_date) ==
    LET sorted == SortByDate(df_payments, "payment_date")
        hits == SelectSeq(sorted, LAMBDA r : r.payment_date = current_date)
    IN  FSum([i \in 1..Len(hits) |-> FromInt(hits[i].amount)])

\* line 91
FullyCleared(disb) ==
    ~FPos(disb.principal_outstanding) /\ ~FPos(disb.accrued_simple_interest)

\* lines 89-109: the interest of one tranche this month
InterestDue(disb, current_date, a) ==
    IF FullyCleared(disb) THEN FZero
    ELSE LET annual_rate == get_annual_rate_for_date(current_date, a.df_rate_schedule,
                                                     a.default_annual_rate)
             monthly_rate == FDiv(annual_rate, FromInt(MonthsPerYear))
         IN  FMul(disb.principal_outstanding, monthly_rate)

\* lines 118-130: interest first, in proportion to each tranche's interest
InterestPaidList(interest, total_payment) ==
    LET total_interest_this_month == FSum(interest)
    IN  List([i \in 1..Len(interest) |->
            IF FPos(total_interest_this_month) /\ FPos(total_payment) /\ FPos(interest[i])
            THEN FMin(FMul(total_payment, FDiv(interest[i], total_interest_this_month)),
                      interest[i])
            ELSE FZero])

\* lines 133, 170: the positive principals, summed
TotalPrincipal(list) ==
    FSum([i \in 1..Len(list) |->
            IF FPos(list[i].principal_outstanding) THEN list[i].principal_outstanding
            ELSE FZero])
\* line 171
TotalAccrued(list) ==
    FSum([i \in 1..Len(list) |->
            IF FPos(list[i].accrued_simple_interest) THEN list[i].accrued_simple_interest
            ELSE FZero])

\* lines 133-143: principal with the leftover, in proportion to principal
PrincipalPaidUncapped(list, total_payment) ==
    LET total_outstanding_principal == TotalPrincipal(list)
    IN  List([i \in 1..Len(list) |->
            IF FPos(total_payment) /\ FPos(total_outstanding_principal)
               /\ FPos(list[i].principal_outstanding)
            THEN FMul(total_payment,
                      FDiv(list[i].principal_outstanding, total_outstanding_principal))
            ELSE FZero])
PrincipalPaidList(list, total_payment) ==
    LET total_outstanding_principal == TotalPrincipal(list)
    IN  List([i \in 1..Len(list) |->
            IF FPos(total_payment) /\ FPos(total_outstanding_principal)
               /\ FPos(list[i].principal_outstanding)
            THEN FMin(FMul(total_payment,
                           FDiv(list[i].principal_outstanding, total_outstanding_principal)),
                      list[i].principal_outstanding)
            ELSE FZero])

\* lines 151-152
InSimple(disb, current_date, simple_years) ==
    DateLt(current_date, AddYears(disb.disbursement_date, simple_years))

\* lines 154-159: the unpaid interest accrues (simple) or is capitalized (compound)
AccrueUnpaid(disb, unpaid_interest, in_simple) ==
    IF in_simple
    THEN [disb EXCEPT !.accrued_simple_interest = FAdd(@, unpaid_interest)]
    ELSE [disb EXCEPT !.principal_outstanding = FAdd(@, unpaid_interest)]

\* line 162
SubtractPrincipal(disb, principal_paid) ==
    [disb EXCEPT !.principal_outstanding = FSub(@, principal_paid)]

\* lines 165-167: past the simple window, a positive accrued balance moves
\* into principal
CapitalizeLeftoverDropped(disb, in_simple) ==
    IF ~in_simple /\ FPos(disb.accrued_simple_interest)
    THEN [disb EXCEPT !.accrued_simple_interest = FZero]
    ELSE disb
CapitalizeLeftover(disb, in_simple) ==
    IF ~in_simple /\ FPos(disb.accrued_simple_interest)
    THEN [disb EXCEPT !.principal_outstanding = FAdd(@, disb.accrued_simple_interest),
                      !.accrued_simple_interest = FZero]
    ELSE disb

\* line 166: the amount moved into principal, 0.0 when the branch is not taken
CapitalizedAmount(disb, in_simple) ==
    IF ~in_simple /\ FPos(disb.accrued_simple_interest)
    THEN disb.accrued_simple_interest
    ELSE FZero

\* lines 146-162: the update of one tranche up to the subtraction of principal
BeforeCapitalize(disb, interest_due, interest_paid, principal_paid, current_date, simple_years) ==
    LET unpaid_interest == FSub(interest_due, interest_paid)
        in_simple == InSimple(disb, current_date, simple_years)
    IN  SubtractPrincipal(AccrueUnpaid(disb, unpaid_interest, in_simple), principal_paid)

\* lines 146-167: the update of one tranche
UpdateDisbursement(disb, interest_due, interest_paid, principal_paid, current_date, simple_years) ==
    CapitalizeLeftover(
        BeforeCapitalize(disb, interest_due, interest_paid, principal_paid, current_date,
                         simple_years),
        InSimple(disb, current_date, simple_years))

\* line 128: what is left of the pooled payment after the interest
Leftover(total_payment, interest_paid_sum) == FSub(total_payment, interest_paid_sum)

\* lines 169-182: the period record, with the tranche records after the
\* update and the per-tranche lists the iteration computed
PeriodRecord(list, period_idx, current_date, a, lumpsum_payment, disb_interest_list, total_payment, interest_paid_list, principal_paid_list, updated) ==
    [list |-> updated,
     row |-> [Period |-> period_idx,
              Date |-> current_date,
              Interest_This_Month |-> FSum(disb_interest_list),
              Interest_Paid |-> FSum(interest_paid_list),
              Principal_Paid |-> FSum(principal_paid_list),
              Extra_Payment |-> lumpsum_payment,
              Ending_Total_Principal |-> TotalPrincipal(updated),
              Ending_Total_Simple_Interest |-> TotalAccrued(updated)],
     locals |-> [before |-> list,
                 total_payment |-> total_payment,
                 disb_interest_list |-> disb_interest_list,
                 interest_paid_list |-> interest_paid_list,
                 principal_paid_list |-> principal_paid_list,
                 in_simple |-> [i \in 1..Len(list) |->
                                  InSimple(list[i], current_date, a.simple_years)],
                 capitalized |-> [i \in 1..Len(list) |->
                     CapitalizedAmount(
                         BeforeCapitalize(list[i], disb_interest_list[i],
                                          interest_paid_list[i], principal_paid_list[i],
                                          current_date, a.simple_years),
                         InSimple(list[i], current_date, a.simple_years))]]]

\* lines 145-167: every tranche updated
UpdateTranches(list, period_idx, current_date, a, lumpsum_payment, disb_interest_list, total_payment, interest_paid_list, principal_paid_list) ==
    PeriodRecord(list, period_idx, current_date, a, lumpsum_payment, disb_interest_list,
                 total_payment, interest_paid_list, principal_paid_list,
                 List([i \in 1..Len(list) |->
                         UpdateDisbursement(list[i], disb_interest_list[i],
                                            interest_paid_list[i], principal_paid_list[i],
                                            current_date, a.simple_years)]))

\* lines 127-143: principal paid out of what the interest left of the payment
PayPrincipal(list, period_idx, current_date, a, lumpsum_payment, disb_interest_list, total_payment, interest_paid_list) ==
    UpdateTranches(list, period_idx, current_date, a, lumpsum_payment, disb_interest_list,
                   total_payment, interest_paid_list,
                   PrincipalPaidList(list, Leftover(total_payment, FSum(interest_paid_list))))

\* lines 114-126: interest paid out of the pooled payment
PayInterest(list, period_idx, current_date, a, lumpsum_payment, disb_interest_list, total_payment) ==
    PayPrincipal(list, period_idx, current_date, a, lumpsum_payment, disb_interest_list,
                 total_payment, InterestPaidList(disb_interest_list, total_payment))

\* line 112: the pooled payment of the month
PoolPayment(list, period_idx, current_date, a, lumpsum_payment, disb_interest_list) ==
    PayInterest(list, period_idx, current_date, a, lumpsum_payment, disb_interest_list,
                FAdd(FromInt(a.monthly_emi), lumpsum_payment))

\* lines 81-182: the whole iteration: the new tranche records, the period
\* record, and the per-tranche lists the iteration computed
PeriodBody(list, period_idx, current_date, a) ==
    PoolPayment(list, period_idx, current_date, a,
                LumpsumPayment(a.df_payments, current_date),
                List([i \in 1..Len(list) |-> InterestDue(list[i], current_date, a)]))

\* lines 184-186
FullyPaidPrincipalOnly(row) == BelowTol(row.Ending_Total_Principal)
FullyPaid(row) ==
    BelowTol(row.Ending_Total_Principal) /\ BelowTol(row.Ending_Total_Simple_Interest)

-----------------------------------------------------------------------------
(* Bounded inputs.                                                         *)

MaxTranches == 2      \* rows of the disbursement table
MaxMonths == 3        \* largest max_months

\* all sequences over S of length lo..hi
SeqsUpTo(S, lo, hi) == UNION {[1..n -> S] : n \in lo..hi}

\* the annual rates 0.75 and 1.5
RateLow == FDiv(FromInt(3), FromInt(4))
RateHigh == FDiv(FromInt(3), FromInt(2))

DisbRows == {[disbursement_date |-> Date(-12, 1), amount |-> 16],
             [disbursement_date |-> Date(-10, 15), amount |-> 16],
             [disbursement_date |-> Date(-10, 15), amount |-> 64]}
Lump(date) == [payment_date |-> date, amount |-> 64]
PaymentTables == {<<>>, <<Lump(Date(1, 1))>>, <<Lump(Date(1, 15))>>,
                  <<Lump(Date(2, 1)), Lump(Date(1, 1)), Lump(Date(2, 1))>>}
RateTables == {<<>>, <<[effective_date |-> Date(1, 1), annual_rate |-> RateHigh]>>}

\* the arguments the application passes: cleaned tables (amounts and rates
\* > 0, lines 347-354), default rate >= 0, EMI >= 0, max_months and
\* simple_years positive
ValidArgs ==
    [df_disb : SeqsUpTo(DisbRows, 1, MaxTranches),
     df_payments : PaymentTables,
     df_rate_schedule : RateTables,
     default_annual_rate : {FZero, RateLow},
     monthly_emi : {0, 3, 64},
     start_payment_date : {Date(0, 1), Date(0, 15)},
     max_months : 1..MaxMonths,
     simple_years : {1}]

NoLocals == [before |-> <<>>, total_payment |-> FZero, disb_interest_list |-> <<>>,
             interest_paid_list |-> <<>>, principal_paid_list |-> <<>>,
             in_simple |-> <<>>, capitalized |-> <<>>]
NoSearch == [left |-> 0, right |-> 0, best_emi |-> 0]
None == "None"

-----------------------------------------------------------------------------
(* B. the engine as a state machine: one action per loop iteration, and    *)
(* the return.                                                             *)

EngineStart(a) ==
    /\ args = a
    /\ disbursements_list = BuildDisbursements(a.df_disb)
    /\ period_dates = PeriodDates(a.start_payment_date, a.max_months)
    /\ schedule_rows = <<>>
    /\ locals = NoLocals
    /\ search = NoSearch
    /\ result = None
    /\ pc = "loop"

Init == \E a \in ValidArgs : EngineStart(a)

\* lines 145-186: the iteration's results stored; break when fully paid
EndOfPeriod(body) ==
    /\ disbursements_list' = body.list
    /\ schedule_rows' = Append(schedule_rows, body.row)
    /\ locals' = body.locals
    /\ pc' = IF FullyPaid(body.row) THEN "break" ELSE "loop"

\* lines 81-186: the next date of the range
Period ==
    /\ pc = "loop"
    /\ Len(schedule_rows) < Len(period_dates)
    /\ EndOfPeriod(PeriodBody(disbursements_list, Len(schedule_rows) + 1,
                              period_dates[Len(schedule_rows) + 1], args))
    /\ UNCHANGED <<args, period_dates, search, result>>

\* lines 188-189: after the break, or with the range used up
Return ==
    /\ \/ pc = "break"
       \/ pc = "loop" /\ Len(schedule_rows) = Len(period_dates)
    /\ pc' = "done"
    /\ result' = [df_schedule |-> schedule_rows, disbursements_list |-> disbursements_list]
    /\ UNCHANGED <<args, disbursements_list, period_dates, schedule_rows, locals, search>>

Next == Period \/ Return

Spec == Init /\ [][Next]_vars

-----------------------------------------------------------------------------
(* Properties of the engine.  `locals` holds the lists of the iteration    *)
(* that emitted the last record, so an invariant over it speaks of every   *)
(* period of every run.                                                    *)

Emitted == Len(schedule_rows) > 0
LastRow == schedule_rows[Len(schedule_rows)]
Tranches == 1..Len(disbursements_list)
TotalInterestDue == FSum(locals.disb_interest_list)
RetiredRow(row) ==
    /\ BelowTol(row.Ending_Total_Principal)
    /\ BelowTol(row.Ending_Total_Simple_Interest)

\* C1: in every period record, Interest_Paid + Principal_Paid is at most the
\* base payment plus the lumpsum of that period (Extra_Payment).
C1_Conservation ==
    \A k \in 1..Len(schedule_rows) :
        FLe(FAdd(schedule_rows[k].Interest_Paid, schedule_rows[k].Principal_Paid),
            FAdd(FromInt(args.monthly_emi), schedule_rows[k].Extra_Payment))

\* What the code does guarantee: the allocation exceeds the pooled payment by
\* less than the tolerance.  The shares of the tranches are rounded one by
\* one, and their sum can come out above the payment they were cut from.
C1_ConservationWithinTolerance ==
    \A k \in 1..Len(schedule_rows) :
        FLt(FAdd(schedule_rows[k].Interest_Paid, schedule_rows[k].Principal_Paid),
            FAdd(FAdd(FromInt(args.monthly_emi), schedule_rows[k].Extra_Payment), Tolerance))

\* C2: for every tranche and every period dated on or after the tranche's
\* disbursement_date + simple_phase_years, the accrued simple interest is zero
\* at the end of the period; in the first such period the amount the
\* phase-transition capitalization moves into principal is the accrued balance
\* the tranche held at the end of the previous period (the principal after it
\* is the float sum of the principal before it and that balance).
PastSimpleWindow(i, date) ==
    DateLe(AddYears(disbursements_list[i].disbursement_date, args.simple_years), date)
FirstPastSimpleWindow(i) ==
    /\ PastSimpleWindow(i, LastRow.Date)
    /\ \A k \in 1..(Len(schedule_rows) - 1) : ~PastSimpleWindow(i, schedule_rows[k].Date)
PrincipalBeforeCapitalize(i) ==
    BeforeCapitalize(locals.before[i], locals.disb_interest_list[i],
                     locals.interest_paid_list[i], locals.principal_paid_list[i],
                     LastRow.Date, args.simple_years).principal_outstanding
C2_PhaseTransition ==
    Emitted =>
        \A i \in Tranches :
            /\ PastSimpleWindow(i, LastRow.Date) =>
                   disbursements_list[i].accrued_simple_interest = FZero
            /\ FirstPastSimpleWindow(i) =>
                   /\ locals.capitalized[i] = locals.before[i].accrued_simple_interest
                   /\ disbursements_list[i].principal_outstanding =
                          FAdd(PrincipalBeforeCapitalize(i),
                               locals.before[i].accrued_simple_interest)

\* a tranche crosses into the compound phase holding a positive accrued balance
C2_Witness ==
    /\ Emitted
    /\ \E i \in Tranches :
          /\ FirstPastSimpleWindow(i)
          /\ Len(schedule_rows) > 1
          /\ FPos(locals.before[i].accrued_simple_interest)
          /\ FPos(locals.capitalized[i])

\* C3: the number of period records emitted is at most max_periods.
C3_AtMostMaxPeriods == Len(schedule_rows) <= args.max_months

\* C4: the run stops at the first period whose two ending balances are both
\* below the tolerance: no earlier record has both below it, no record follows
\* one that has, and a returned run whose last record has a residual balance
\* used up the period limit.
C4_StopsAtRetirement ==
    /\ \A k \in 1..(Len(schedule_rows) - 1) : ~RetiredRow(schedule_rows[k])
    /\ (Emitted /\ RetiredRow(LastRow)) => pc \in {"break", "done"}
    /\ (pc = "break") => (Emitted /\ RetiredRow(LastRow))
    /\ (pc = "done" /\ Emitted /\ ~RetiredRow(LastRow)) =>
           /\ Len(schedule_rows) = Len(period_dates)
           /\ Len(schedule_rows) >= args.max_months

\* a run that stopped at retirement before the range of dates was used up,
\* after at least one period that did not retire the loan
C4_Witness ==
    /\ pc = "done"
    /\ Len(schedule_rows) > 1
    /\ Len(schedule_rows) < Len(period_dates)
    /\ RetiredRow(LastRow)

\* C6: with non-negative amounts, payments and rates, every tranche's
\* principal and accrued simple interest are >= 0, and in every period each
\* tranche's interest due, interest paid and principal paid are >= 0, the
\* interest paid at most the interest due and the principal paid at most the
\* principal outstanding at the start of the period.
C6_NonNegative ==
    /\ \A i \in Tranches :
          /\ FLe(FZero, disbursements_list[i].principal_outstanding)
          /\ FLe(FZero, disbursements_list[i].accrued_simple_interest)
    /\ \A i \in 1..Len(locals.before) :
          /\ FLe(FZero, locals.disb_interest_list[i])
          /\ FLe(FZero, locals.interest_paid_list[i])
          /\ FLe(FZero, locals.principal_paid_list[i])
          /\ FLe(locals.interest_paid_list[i], locals.disb_interest_list[i])
          /\ FLe(locals.principal_paid_list[i], locals.before[i].principal_outstanding)

\* a period in which the leftover payment exceeded a tranche's principal, so
\* that the cap on the principal paid decided it
C6_Witness ==
    /\ Emitted
    /\ \E i \in Tranches :
          /\ FPos(locals.principal_paid_list[i])
          /\ locals.principal_paid_list[i] = locals.before[i].principal_outstanding
          /\ FLt(FAdd(TotalInterestDue, TotalPrincipal(locals.before)),
                 locals.total_payment)

\* C7: in every period that starts with a positive aggregate balance, in
\* which the pooled payment is strictly greater than the total interest due
\* and no accrued simple interest is capitalized, the ending aggregate
\* principal plus ending aggregate accrued simple interest is strictly smaller
\* than the same sum at the start of the period.
StartBalance == FAdd(TotalPrincipal(locals.before), TotalAccrued(locals.before))
EndBalance == FAdd(LastRow.Ending_Total_Principal, LastRow.Ending_Total_Simple_Interest)
PaymentExceedsInterest ==
    /\ FPos(StartBalance)
    /\ FLt(TotalInterestDue, locals.total_payment)
    /\ \A i \in Tranches : locals.capitalized[i] = FZero
C7_StrictDecrease ==
    (Emitted /\ PaymentExceedsInterest) => FLt(EndBalance, StartBalance)

\* What the code does guarantee: the strict decrease in the periods that start
\* with a positive aggregate principal outstanding.  A balance made of accrued
\* simple interest alone is not reduced by any payment, because the waterfall
\* pays only the interest of the month and principal; that is where C7 fails.
C7_StrictDecreaseOfPrincipal ==
    (Emitted /\ PaymentExceedsInterest /\ FPos(TotalPrincipal(locals.before))) =>
        FLt(EndBalance, StartBalance)

\* such a period, with two tranches and part of the principal left
C7_DecreaseWitness ==
    /\ Emitted /\ PaymentExceedsInterest
    /\ FPos(TotalPrincipal(locals.before))
    /\ FPos(TotalInterestDue)
    /\ FPos(LastRow.Ending_Total_Principal)
    /\ Len(disbursements_list) > 1

\* C10: in every period with pooled payment P and total interest due I: if
\* P >= I, every tranche's interest paid equals its interest due and
\* Principal_Paid = min(P - I, total outstanding principal); if 0 < P < I,
\* Interest_Paid = P and Principal_Paid = 0.  And the documented example:
\* principal 1,000,000 at 8.4% with payment 25,000 gives interest paid 7,000,
\* principal paid 18,000, ending principal 982,000.
ExampleArgs ==
    [df_disb |-> <<[disbursement_date |-> Date(0, 1), amount |-> 1000000]>>,
     df_payments |-> <<>>,
     df_rate_schedule |-> <<>>,
     default_annual_rate |-> FDiv(FromInt(84), FromInt(1000)),
     monthly_emi |-> 25000,
     start_payment_date |-> Date(0, 1),
     max_months |-> 216,
     simple_years |-> 3]
ExampleRow ==
    PeriodBody(BuildDisbursements(ExampleArgs.df_disb), 1, Date(0, 1), ExampleArgs).row
C10_Waterfall ==
    /\ Emitted =>
          LET P == locals.total_payment
              I == TotalInterestDue
          IN  /\ FLe(I, P) =>
                    /\ \A i \in Tranches :
                          locals.interest_paid_list[i] = locals.disb_interest_list[i]
                    /\ LastRow.Principal_Paid =
                          FMin(FSub(P, I), TotalPrincipal(locals.before))
              /\ (FPos(P) /\ FLt(P, I)) =>
                    /\ LastRow.Interest_Paid = P
                    /\ LastRow.Principal_Paid = FZero
    /\ ExampleRow.Interest_Paid = FromInt(7000)
    /\ ExampleRow.Principal_Paid = FromInt(18000)
    /\ ExampleRow.Ending_Total_Principal = FromInt(982000)

\* What the code does guarantee of C10: the documented example.  The
\* equalities fail where a payment is shared between tranches: the shares
\* are rounded floats, their sum misses the payment by a last bit, and a
\* positive residue of a payment smaller than the interest is paid to principal.
C10_Example ==
    /\ ExampleRow.Interest_Paid = FromInt(7000)
    /\ ExampleRow.Principal_Paid = FromInt(18000)
    /\ ExampleRow.Ending_Total_Principal = FromInt(982000)

\* C11: the period records carry the indices 1, 2, 3, ... without gaps, and
\* the record with index k is dated exactly k-1 calendar months after
\* start_date; the first record is dated start_date itself, also for a start
\* date that is not the first day of a month.
C11_DatedFromStart ==
    \A k \in 1..Len(schedule_rows) :
        /\ schedule_rows[k].Period = k
        /\ schedule_rows[k].Date = AddMonths(args.start_payment_date, k - 1)

\* What the code does guarantee: indices without gaps, and record k dated the
\* first day of a month, k-1 months after the first month start on or after
\* start_date.
C11_DatedFromMonthStart ==
    \A k \in 1..Len(schedule_rows) :
        /\ schedule_rows[k].Period = k
        /\ schedule_rows[k].Date =
               Date(FirstMonth(args.start_payment_date) + k - 1, 1)

-----------------------------------------------------------------------------
(* The engine called with any arguments, malformed ones included.          *)

AnyDisbRows == [disbursement_date : {Date(-12, 1), Date(-10, 15)}, amount : {-16, 16}]
AnyArgs ==
    [df_disb : {<<r>> : r \in AnyDisbRows},
     df_payments : {<<>>, <<Lump(Date(1, 1))>>,
                    <<[payment_date |-> Date(1, 1), amount |-> -64]>>},
     df_rate_schedule : {<<>>, <<[effective_date |-> Date(1, 1),
                                  annual_rate |-> FNeg(RateHigh)]>>},
     default_annual_rate : {RateLow, FNeg(RateLow)},
     monthly_emi : {0, 2},
     start_payment_date : {Date(0, 1), Date(0, 15)},
     max_months : {-1, 0, 2},
     simple_years : {-1, 0, 1}]

InitAny == \E a \in AnyArgs : EngineStart(a)
SpecAny == InitAny /\ [][Next]_vars

\* the inputs section 7 of the specification calls invalid
InvalidArgs(a) ==
    \/ \E i \in 1..Len(a.df_disb) : a.df_disb[i].amount < 0
    \/ \E i \in 1..Len(a.df_payments) : a.df_payments[i].amount < 0
    \/ ~FLe(FZero, a.default_annual_rate)
    \/ \E i \in 1..Len(a.df_rate_schedule) : ~FLe(FZero, a.df_rate_schedule[i].annual_rate)
    \/ a.max_months <= 0
    \/ a.simple_years <= 0

\* C8: a run that receives a negative disbursement or payment amount, a
\* negative rate, or a non-positive max_periods or simple_phase_years ends in an
\* input-validation error before the first period is processed: it emits no
\* period record and returns no schedule.
C8_InvalidInputRejected ==
    InvalidArgs(args) => (schedule_rows = <<>> /\ pc # "done")

-----------------------------------------------------------------------------
(* A. get_annual_rate_for_date called on its own.                          *)

MaxScheduleRows == 3

RateRows == [effective_date : {Date(0, 1), Date(0, 15), Date(1, 1), Date(2, 1)},
             annual_rate : {RateLow, RateHigh}]
DistinctDates(t) ==
    \A i, j \in 1..Len(t) : i # j => t[i].effective_date # t[j].effective_date
RateArgs ==
    [date : {Date(-1, 15), Date(0, 15), Date(1, 1), Date(3, 1)},
     df_rate_schedule : {t \in SeqsUpTo(RateRows, 0, MaxScheduleRows) : DistinctDates(t)},
     default_rate : {FZero}]

InitRate ==
    /\ args \in RateArgs
    /\ disbursements_list = <<>>
    /\ period_dates = <<>>
    /\ schedule_rows = <<>>
    /\ locals = NoLocals
    /\ search = NoSearch
    /\ result = None
    /\ pc = "call"

\* lines 14-36
Resolve ==
    /\ pc = "call"
    /\ result' = get_annual_rate_for_date(args.date, args.df_rate_schedule, args.default_rate)
    /\ pc' = "done"
    /\ UNCHANGED <<args, disbursements_list, period_dates, schedule_rows, locals, search>>

SpecRate == InitRate /\ [][Resolve]_vars

\* C9: for a schedule with distinct effective dates in any order, the resolver
\* returns the default rate when the schedule is empty or every effective date
\* is strictly after the date, and otherwise the rate of the entry with the
\* greatest effective date on or before the date.
OnOrBefore(t, date) == {i \in 1..Len(t) : ~DateLt(date, t[i].effective_date)}
C9_RateResolved ==
    pc = "done" =>
        LET t == args.df_rate_schedule
            on == OnOrBefore(t, args.date)
        IN  IF on = {} THEN result = args.default_rate
            ELSE \E i \in on :
                    /\ \A j \in on : ~DateLt(t[i].effective_date, t[j].effective_date)
                    /\ result = t[i].annual_rate

\* resolved from an unsorted schedule, some entry in force, one dated exactly
\* the date asked for and one later
C9_Witness ==
    /\ pc = "done"
    /\ Len(args.df_rate_schedule) = 3
    /\ DateLt(args.df_rate_schedule[2].effective_date, args.df_rate_schedule[1].effective_date)
    /\ \E i \in 1..3 : args.df_rate_schedule[i].effective_date = args.date
    /\ \E i \in 1..3 : DateLt(args.date, args.df_rate_schedule[i].effective_date)
    /\ result = RateHigh

-----------------------------------------------------------------------------
(* B. the engine as a function: the whole call, as the search uses it.     *)

\* lines 81-186: the loop from the record after `rows` on
RECURSIVE RunLoop(_, _, _, _)
\* lines 173-186: the record appended; break when fully paid
BreakOrContinue(rows, dates, a, body) ==
    IF FullyPaid(body.row)
    THEN [df_schedule |-> Append(rows, body.row), disbursements_list |-> body.list]
    ELSE RunLoop(body.list, Append(rows, body.row), dates, a)
RunLoop(list, rows, dates, a) ==
    IF Len(rows) = Len(dates)
    THEN [df_schedule |-> rows, disbursements_list |-> list]
    ELSE BreakOrContinue(rows, dates, a,
                         PeriodBody(list, Len(rows) + 1, dates[Len(rows) + 1], a))

\* lines 41-189
separate_disbursements_amortization(a) ==
    RunLoop(BuildDisbursements(a.df_disb), <<>>,
            PeriodDates(a.start_payment_date, a.max_months), a)

-----------------------------------------------------------------------------
(* D. find_required_emi_for_target_months                                  *)

SearchUpper == 300000     \* line 212: right = 300000

\* lines 216-225: the engine run with monthly_emi = mid
TrialRun(a, mid) ==
    separate_disbursements_amortization(
        [df_disb |-> a.df_disb,
         df_payments |-> a.df_payments,
         df_rate_schedule |-> a.df_rate_schedule,
         default_annual_rate |-> a.default_annual_rate,
         monthly_emi |-> mid,
         start_payment_date |-> a.start_payment_date,
         max_months |-> a.max_months,
         simple_years |-> a.simple_years]).df_schedule

\* line 237, on a schedule that is not empty
TrialSucceedsIgnoringTarget(df_sch, target_months) ==
    LET last == df_sch[Len(df_sch)]
    IN  /\ BelowTol(last.Ending_Total_Principal)
        /\ BelowTol(last.Ending_Total_Simple_Interest)
TrialSucceeds(df_sch, target_months) ==
    LET last == df_sch[Len(df_sch)]
    IN  /\ BelowTol(last.Ending_Total_Principal)
        /\ BelowTol(last.Ending_Total_Simple_Interest)
        /\ last.Period <= target_months

\* line 215
Mid(left, right) == (left + right) \div 2

\* lines 226-242: the bounds after the trial with payment mid
Narrow(s, mid, df_sch, target_months) ==
    IF df_sch = <<>>
    THEN [s EXCEPT !.left = mid + 1]
    ELSE IF TrialSucceeds(df_sch, target_months)
         THEN [s EXCEPT !.best_emi = mid, !.right = mid - 1]
         ELSE [s EXCEPT !.left = mid + 1]
\* lines 215-242
Trial(s, mid, a) == Narrow(s, mid, TrialRun(a, mid), a.target_months)

\* lines 214-242: one iteration of the while loop
SearchStep ==
    /\ pc = "search"
    /\ search.left <= search.right
    /\ search' = Trial(search, Mid(search.left, search.right), args)
    /\ UNCHANGED <<args, disbursements_list, period_dates, schedule_rows, locals,
                   result, pc>>

\* line 244
SearchReturn ==
    /\ pc = "search"
    /\ search.left > search.right
    /\ result' = search.best_emi
    /\ pc' = "done"
    /\ UNCHANGED <<args, disbursements_list, period_dates, schedule_rows, locals, search>>

MaxTarget == 3          \* largest target_months
MaxSearchMonths == 2    \* largest max_months of a search

\* loans of one tranche, of two tranches of one disbursement date, and of a
\* tranche past its simple window with one still inside it

Tranche(m, d, amount) == [disbursement_date |-> Date(m, d), amount |-> amount]
RegularSearchArgs ==
    [df_disb : {<<Tranche(-12, 1, 16)>>, <<Tranche(-10, 15, 48)>>,
                <<Tranche(-10, 15, 48), Tranche(-10, 15, 16)>>,
                <<Tranche(-10, 15, 64), Tranche(-12, 1, 16)>>},
     df_payments : {<<>>, <<Lump(Date(1, 1))>>},
     df_rate_schedule : {<<>>},
     default_annual_rate : {FZero, RateLow},
     start_payment_date : {Date(0, 1), Date(0, 15)},
     max_months : 1..MaxSearchMonths,
     simple_years : {1},
     target_months : 1..MaxTarget]
\* a call whose range of dates is empty, so that no payment of the range
\* retires the loan
EmptyRangeArgs ==
    [df_disb |-> <<Tranche(-12, 1, 16)>>, df_payments |-> <<>>,
     df_rate_schedule |-> <<>>, default_annual_rate |-> RateLow,
     start_payment_date |-> Date(0, 15), max_months |-> 0, simple_years |-> 1,
     target_months |-> 1]
SearchArgs == RegularSearchArgs \cup {EmptyRangeArgs}

InitSearch ==
    /\ args \in SearchArgs
    /\ disbursements_list = <<>>
    /\ period_dates = <<>>
    /\ schedule_rows = <<>>
    /\ locals = NoLocals
    /\ search = [left |-> 0, right |-> SearchUpper, best_emi |-> SearchUpper]
    /\ result = None
    /\ pc = "search"

NextSearch == SearchStep \/ SearchReturn
SpecSearch == InitSearch /\ [][NextSearch]_vars

\* a payment meets the target: its run ends with both residual balances below
\* the tolerance in a last period <= target_months
Retires(df_sch, target_months) ==
    /\ df_sch # <<>>
    /\ RetiredRow(df_sch[Len(df_sch)])
    /\ df_sch[Len(df_sch)].Period <= target_months
MeetsTarget(a, p) == Retires(TrialRun(a, p), a.target_months)

\* C5: the search returns the smallest integer payment of [0, upper bound]
\* whose run retires the loan at or before target_periods, and the upper bound
\* when no payment of the range does.
C5_SmallestPayment ==
    pc = "done" =>
        IF MeetsTarget(args, result)
        THEN \A p \in 0..(result - 1) : ~MeetsTarget(args, p)
        ELSE /\ result = SearchUpper
             /\ \A p \in 0..SearchUpper : ~MeetsTarget(args, p)

\* a search over two tranches and a lumpsum that returned a payment strictly
\* inside the range, which retires the loan in the second period
C5_Witness ==
    /\ pc = "done"
    /\ Len(args.df_disb) = 2
    /\ args.df_payments # <<>>
    /\ args.target_months = 2
    /\ result > 0 /\ result < SearchUpper
    /\ MeetsTarget(args, result)
    /\ ~MeetsTarget([args EXCEPT !.target_months = 1], result)

=============================================================================
